---------------------------- MODULE Spec2Model ----------------------------
(***************************************************************************)
(* A model of RustQR (src/src/main.rs, src/src/styles.rs): the command     *)
(* line QR generator that encodes a text, rasterises the module matrix     *)
(* with a dot style, an eye style and an optional column gradient, pastes  *)
(* an optional logo and writes a raster file or an SVG document.           *)
(*                                                                         *)
(* Four specifications share the variables:                                *)
(*   Spec        main(): the order of the pipeline steps and its errors    *)
(*   SpecRaster  generate_qr_image: the module pass on the pixel canvas    *)
(*   SpecLogo    add_logo: the size and the place of the logo              *)
(*   SpecSvg     save_as_svg: the document, element by element             *)
(*                                                                         *)
(* f32 arithmetic is modelled bit-exactly (round to nearest, ties to even, *)
(* 24 bit significand) on integers that stay below 2^31.                   *)
(***************************************************************************)
EXTENDS Integers, Sequences, FiniteSets, TLC

VARIABLES
    pc,     \* the position in the function the specification follows
    args,   \* the parsed command line (struct Args)
    qr,     \* the QrCode handed over by the encoder: [width, pat]
    img,    \* the RgbaImage canvas: [width, height, pix], pix[py][px]
    row,    \* the y of the next row of modules the walker visits
    svg,    \* the SVG document so far, a sequence of elements
    trace,  \* the pipeline steps main() has executed, in order
    files,  \* the output files created so far
    logo    \* add_logo's locals: the loaded logo and the computed box

vars == <<pc, args, qr, img, row, svg, trace, files, logo>>

--------------------------------------------------------------------------
(* Bounds of the model.                                                    *)

\* QR versions 1..MaxVersion are modelled (width 17 + 4*version).
MaxVersion == 1
\* Pixels per module: size is drawn so that scale ranges over 0..MaxScale.
MaxScale == 3

\* The logo files are w x h with w and h in 1..MaxLogoSide (and three more).
MaxLogoSide == 5

\* The frame eyes are drawn at 1..MaxFrameScale pixels per module (and at 15).
MaxFrameScale == 10

\* The encoder makes versions 1..40 (Args.version: "QR version (1-40)").
QrMaxVersion == 40

--------------------------------------------------------------------------
(* f32: a finite non-negative float is [m, e], the value m * 2^e, with     *)
(* 2^23 <= m < 2^24, or m = 0.                                             *)

F32Zero == [m |-> 0, e |-> 0]

RECURSIVE BitLen(_)
BitLen(n) == IF n = 0 THEN 0 ELSE 1 + BitLen(n \div 2)

\* q is the significand cut to 24 bits, rem/(2*half) the fraction cut off.
F32Round(q, rem, half, e) ==
    LET up == rem > half \/ (rem = half /\ q % 2 = 1)
        q2 == IF up THEN q + 1 ELSE q
    IN  IF q2 = 2^24 THEN [m |-> 2^23, e |-> e + 1] ELSE [m |-> q2, e |-> e]

RECURSIVE F32NormShift(_, _, _)
F32NormShift(v, target, k) ==
    IF v >= target THEN k ELSE F32NormShift(2 * v, target, k + 1)

\* n as f32 / d as f32, for 0 <= n < 128 and 0 < d < 128.
F32Div(n, d) ==
    IF n = 0 THEN F32Zero
    ELSE LET k   == F32NormShift(n, d * 2^23, 0)
             num == n * 2^k
         IN  F32Round(num \div d, 2 * (num % d), d, 0 - k)

\* k as f32 * fl, for an integer 0 <= k < 4096.
F32MulInt(k, fl) ==
    IF k = 0 \/ fl.m = 0 THEN F32Zero
    ELSE LET a  == k * (fl.m % 4096)
             hi == k * (fl.m \div 4096) + (a \div 4096)
             lo == a % 4096
             s  == BitLen(hi) - 12
         IN  IF s = 0 THEN [m |-> hi * 4096 + lo, e |-> fl.e]
             ELSE IF s <= 12
                  THEN F32Round(hi * 2^(12 - s) + (lo \div 2^s), lo % 2^s,
                                2^(s - 1), fl.e + s)
                  ELSE F32Round(hi \div 2, (hi % 2) * 4096 + lo, 4096, fl.e + s)

\* fl as u32: truncation toward zero.
F32Trunc(fl) ==
    IF fl.m = 0 THEN 0
    ELSE IF fl.e >= 0 THEN fl.m * 2^(fl.e)
    ELSE IF 0 - fl.e >= 24 THEN 0
    ELSE fl.m \div 2^(0 - fl.e)

\* (c as f32 + fl) as u8, or (c as f32 - fl) as u8 with neg, for 0 <= c <= 255
\* and fl <= 255 (fl <= c with neg): the sum is rounded to f32, then cut.
F32AddTrunc(c, neg, fl) ==
    IF fl.m = 0 THEN c
    ELSE LET k  == 0 - fl.e
             Fi == IF k >= 24 THEN 0 ELSE fl.m \div 2^k
             Ff == IF k >= 24 THEN fl.m ELSE fl.m % 2^k
             I  == IF ~neg THEN c + Fi
                   ELSE IF Ff = 0 THEN c - Fi ELSE c - Fi - 1
             fr == IF ~neg \/ Ff = 0 THEN Ff ELSE 2^k - Ff
             sh == k + BitLen(I) - 25
             v  == IF fr # 0 /\ sh >= 0 /\ 2^k - fr <= 2^sh THEN I + 1 ELSE I
         IN  IF v > 255 THEN 255 ELSE v

--------------------------------------------------------------------------
(* Colours and styles.                                                     *)

\* The colour literals of the model and what csscolorparser makes of them;
\* any other literal is not a colour.
ColorTable ==
    [lit \in {"#000000", "#ffffff", "#ff0000", "#0000ff", "#d200ff", "#00ff00"} |->
        CASE lit = "#000000" -> <<0, 0, 0, 255>>
          [] lit = "#ffffff" -> <<255, 255, 255, 255>>
          [] lit = "#ff0000" -> <<255, 0, 0, 255>>
          [] lit = "#0000ff" -> <<0, 0, 255, 255>>
          [] lit = "#d200ff" -> <<210, 0, 255, 255>>
          [] lit = "#00ff00" -> <<0, 255, 0, 255>>]

\* to_lowercase on the strings of the model.
to_lowercase(s) ==
    CASE s = "TRANSPARENT" -> "transparent"
      [] s = "Circle" -> "circle"
      [] s = "Frame" -> "frame"
      [] s = "SVG" -> "svg"
      [] s = "PNG" -> "png"
      [] OTHER -> s

\* str::trim on the strings of the model.
trim(s) ==
    CASE s = " #0000ff" -> "#0000ff"
      [] s = "#ff0000 " -> "#ff0000"
      [] OTHER -> s

ParseErr == [ok |-> FALSE]

parse_color_from_hex(hex) ==
    IF hex \in DOMAIN ColorTable
    THEN [ok |-> TRUE, v |-> ColorTable[hex]]
    ELSE ParseErr

parse_color(hex) ==
    IF to_lowercase(hex) = "transparent"
    THEN [ok |-> TRUE, v |-> <<0, 0, 0, 0>>]
    ELSE parse_color_from_hex(hex)

\* Faulty variant: the number of fields is not checked: the first and the last
\* field are taken.
parse_gradient_any_len(gradient) ==
    LET c1 == parse_color_from_hex(trim(gradient[1]))
        c2 == parse_color_from_hex(trim(gradient[Len(gradient)]))
    IN  IF ~c1.ok \/ ~c2.ok THEN ParseErr
        ELSE [ok |-> TRUE, v |-> <<c1.v, c2.v>>]

\* Faulty variant: "<" for "!=", a gradient of more than two fields passes.
parse_gradient_two_or_more(gradient) ==
    IF Len(gradient) < 2 THEN ParseErr
    ELSE LET c1 == parse_color_from_hex(trim(gradient[1]))
             c2 == parse_color_from_hex(trim(gradient[2]))
         IN  IF ~c1.ok \/ ~c2.ok THEN ParseErr
             ELSE [ok |-> TRUE, v |-> <<c1.v, c2.v>>]

\* A gradient option is the sequence of the fields that split(',') returns.
parse_gradient(gradient) ==
    IF Len(gradient) # 2 THEN ParseErr
    ELSE LET c1 == parse_color_from_hex(trim(gradient[1]))
             c2 == parse_color_from_hex(trim(gradient[2]))
         IN  IF ~c1.ok \/ ~c2.ok THEN ParseErr
             ELSE [ok |-> TRUE, v |-> <<c1.v, c2.v>>]

DotStyle_from_str(s) ==
    CASE to_lowercase(s) = "circle" -> "Circle"
      [] to_lowercase(s) = "rounded" -> "Rounded"
      [] OTHER -> "Square"

EyeStyle_from_str(s) ==
    CASE to_lowercase(s) = "circle" -> "Circle"
      [] to_lowercase(s) = "frame" -> "Frame"
      [] OTHER -> "Square"

\* One channel of interpolate_gradient at t = x as f32 / n as f32.
LerpChannel(a, b, x, n) ==
    LET t == F32Div(x, n)
    IN  IF b >= a THEN F32AddTrunc(a, FALSE, F32MulInt(b - a, t))
        ELSE F32AddTrunc(a, TRUE, F32MulInt(a - b, t))

\* Faulty variant: the two colours of the gradient taken in the wrong order.
interpolate_gradient_swapped(colors, x, n) ==
    <<LerpChannel(colors[2][1], colors[1][1], x, n),
      LerpChannel(colors[2][2], colors[1][2], x, n),
      LerpChannel(colors[2][3], colors[1][3], x, n),
      255>>

interpolate_gradient(colors, x, n) ==
    <<LerpChannel(colors[1][1], colors[2][1], x, n),
      LerpChannel(colors[1][2], colors[2][2], x, n),
      LerpChannel(colors[1][3], colors[2][3], x, n),
      255>>

--------------------------------------------------------------------------
(* The module matrix.  The encoder is a collaborator: the model hands over *)
(* a matrix with the three finder patterns and their separators in place,  *)
(* and one of two data patterns elsewhere.                                 *)

Abs(i) == IF i < 0 THEN 0 - i ELSE i

Max(a, b) == IF a >= b THEN a ELSE b

WidthOf(version) == 17 + 4 * version

\* The corner (ox, oy) holds a finder pattern: a 7x7 dark ring around a light
\* ring around a dark 3x3 core.
FinderDark(x, y, ox, oy) == Max(Abs(x - ox - 3), Abs(y - oy - 3)) # 2

\* qr[(x, y)] == Color::Dark
QrDark(q, x, y) ==
    LET n == q.width
        fx == IF x < 8 THEN 0 ELSE IF x >= n - 8 THEN n - 7 ELSE -1
        fy == IF y < 8 THEN 0 ELSE IF y >= n - 8 THEN n - 7 ELSE -1
        corner == fx >= 0 /\ fy >= 0 /\ ~(fx > 0 /\ fy > 0)
    IN  IF corner
        THEN /\ x >= fx /\ x < fx + 7 /\ y >= fy /\ y < fy + 7
             /\ FinderDark(x, y, fx, fy)
        ELSE IF q.pat = 0 THEN (x + y) % 2 = 0
             ELSE (x * y) % 3 = 0 \/ (x + 2 * y) % 5 = 0

--------------------------------------------------------------------------
(* styles.rs: the glyph rasterizer.  An image is [width, height, pix] with *)
(* pix[py][px] the pixel; put_pixel replaces it.                           *)

ImageBuffer_from_pixel(w, h, color) ==
    [width |-> w, height |-> h,
     pix |-> [py \in 0..(h - 1) |-> [px \in 0..(w - 1) |-> color]]]

put_pixel(im, px, py, color) == [im EXCEPT !.pix[py][px] = color]

\* "for dx in 0..scale { ... }" of the four draw functions, from dx on, in
\* row dy of the cell: the pixel (x+dx, y+dy) is written when it is on the
\* image and the draw function's condition, mask[dy][dx], holds.
RECURSIVE CellRow(_, _, _, _, _, _, _, _)
CellRow(im, x, y, scale, color, mask, dy, dx) ==
    IF dx >= scale THEN im
    ELSE LET px == x + dx
             py == y + dy
             next == IF px < im.width /\ py < im.height /\ mask[dy][dx]
                     THEN put_pixel(im, px, py, color) ELSE im
         IN  \* (the test evaluates next before the loop goes on)
             IF next.width < 0 THEN next
             ELSE CellRow(next, x, y, scale, color, mask, dy, dx + 1)

\* "for dy in 0..scale { for dx in 0..scale { ... } }", from dy on.
RECURSIVE CellLoop(_, _, _, _, _, _, _)
CellLoop(im, x, y, scale, color, mask, dy) ==
    IF dy >= scale THEN im
    ELSE LET next == CellRow(im, x, y, scale, color, mask, dy, 0)
         IN  IF next.width < 0 THEN next
             ELSE CellLoop(next, x, y, scale, color, mask, dy + 1)

\* Faulty variant: both loops run one step too far: 0..=scale.
draw_square_overdraw(im, x, y, scale, color) ==
    LET mask == [dy \in 0..scale |-> [dx \in 0..scale |-> TRUE]]
    IN  CellLoop(im, x, y, scale + 1, color, mask, 0)

draw_square(im, x, y, scale, color) ==
    LET mask == [dy \in 0..(scale - 1) |-> [dx \in 0..(scale - 1) |-> TRUE]]
    IN  CellLoop(im, x, y, scale, color, mask, 0)

\* dist <= radius with center = origin + scale/2 and radius = scale/2, all
\* lengths doubled: exact in f32 for these magnitudes.
InCircle(dx, dy, scale) ==
    (2 * dx - scale) * (2 * dx - scale) + (2 * dy - scale) * (2 * dy - scale)
        <= scale * scale

draw_circle(im, x, y, scale, color) ==
    LET mask == [dy \in 0..(scale - 1) |->
                    [dx \in 0..(scale - 1) |-> InCircle(dx, dy, scale)]]
    IN  CellLoop(im, x, y, scale, color, mask, 0)

\* radius = scale * 0.3; all lengths are in tenths of a pixel (the f32
\* evaluation agrees for every scale below 50).
is_in_rounded_corner(dx, dy, scale) ==
    LET r  == 3 * scale
        sr == 10 * scale - r
        X  == 10 * dx
        Y  == 10 * dy
        in_corner_region ==
            \/ (X < r /\ Y < r)
            \/ (X > sr /\ Y < r)
            \/ (X < r /\ Y > sr)
            \/ (X > sr /\ Y > sr)
        Near(cx, cy) == (X - cx) * (X - cx) + (Y - cy) * (Y - cy) <= r * r
    IN  IF ~in_corner_region THEN TRUE
        ELSE Near(r, r) \/ Near(sr, r) \/ Near(r, sr) \/ Near(sr, sr)

draw_rounded_square(im, x, y, scale, color) ==
    LET mask == [dy \in 0..(scale - 1) |->
                    [dx \in 0..(scale - 1) |-> is_in_rounded_corner(dx, dy, scale)]]
    IN  CellLoop(im, x, y, scale, color, mask, 0)

\* Faulty variant: the thickness without its minimum of one pixel.
FrameThickness_no_min(scale) == F32Trunc(F32MulInt(scale, F32Div(1, 5)))

\* (scale as f32 * 0.2).max(1.0) as u32, for scale < 4096.  The literal 0.2
\* is the f32 nearest to 1/5; the maximum with 1.0 and the cut to u32
\* commute, the product being non-negative.
FrameThickness(scale) ==
    LET t == F32Trunc(F32MulInt(scale, F32Div(1, 5)))
    IN  IF t < 1 THEN 1 ELSE t

draw_frame(im, x, y, scale, color) ==
    LET thickness == FrameThickness(scale)
        mask == [dy \in 0..(scale - 1) |->
                    [dx \in 0..(scale - 1) |->
                        \/ dx < thickness
                        \/ dx >= scale - thickness
                        \/ dy < thickness
                        \/ dy >= scale - thickness]]
    IN  CellLoop(im, x, y, scale, color, mask, 0)

apply_dot_style(im, x, y, scale, color, style) ==
    CASE style = "Square" -> draw_square(im, x, y, scale, color)
      [] style = "Circle" -> draw_circle(im, x, y, scale, color)
      [] style = "Rounded" -> draw_rounded_square(im, x, y, scale, color)

apply_eye_style(im, x, y, scale, color, style) ==
    CASE style = "Square" -> draw_square(im, x, y, scale, color)
      [] style = "Circle" -> draw_circle(im, x, y, scale, color)
      [] style = "Frame" -> draw_frame(im, x, y, scale, color)

--------------------------------------------------------------------------
(* main.rs: generate_qr_image, the matrix walker.                          *)

None == [some |-> FALSE]

Some(v) == [some |-> TRUE, v |-> v]

\* Faulty variant: the scale rounded up instead of down.
ScaleOf_ceil(a, q) ==
    (a.size + q.width + 2 * a.border - 1) \div (q.width + 2 * a.border)

\* let scale = args.size / (qr_width as u32 + 2 * args.border);
ScaleOf(a, q) == a.size \div (q.width + 2 * a.border)

\* Faulty variant: the third eye put in the bottom-right corner.
eye_positions_bottom_right(n) == {<<0, 0>>, <<n - 7, 0>>, <<n - 7, n - 7>>}

\* let eye_positions = vec![(0, 0), (qr_width - 7, 0), (0, qr_width - 7)];
eye_positions(n) == {<<0, 0>>, <<n - 7, 0>>, <<0, n - 7>>}

\* eye_positions.iter().any(|(ex, ey)| x >= ex && x < ex + 7 && y >= ey && y < ey + 7)
in_eye(x, y, n) ==
    \E e \in eye_positions(n) :
        x >= e[1] /\ x < e[1] + 7 /\ y >= e[2] /\ y < e[2] + 7

\* The colour of the dark modules of column x.
ModuleColor(a, q, x) ==
    IF a.gradient.some
    THEN interpolate_gradient(parse_gradient(a.gradient.v).v, x, q.width)
    ELSE parse_color(a.fg_color).v

\* The cell origin of module column (or row) x.
CellOrigin(a, q, x) == (x + a.border) * ScaleOf(a, q)

\* Which branch the body of the module loops takes for the module (x, y):
\* "eye" (apply_eye_style), "dot" (apply_dot_style) or "light" (nothing).
ModuleClass(q, x, y) ==
    IF QrDark(q, x, y)
    THEN IF in_eye(x, y, q.width) THEN "eye" ELSE "dot"
    ELSE "light"

\* The body of the module loops for the module (x, y).
DrawModule(im, a, q, x, y) ==
    CASE ModuleClass(q, x, y) = "eye" ->
             apply_eye_style(im, CellOrigin(a, q, x), CellOrigin(a, q, y),
                             ScaleOf(a, q), ModuleColor(a, q, x),
                             EyeStyle_from_str(a.eye_style))
      [] ModuleClass(q, x, y) = "dot" ->
             apply_dot_style(im, CellOrigin(a, q, x), CellOrigin(a, q, y),
                             ScaleOf(a, q), ModuleColor(a, q, x),
                             DotStyle_from_str(a.dot_style))
      [] OTHER -> im

\* for x in 0..qr_width { ... }, from column x on, in row y.
RECURSIVE RowLoop(_, _, _, _, _)
RowLoop(im, a, q, x, y) ==
    IF x >= q.width THEN im
    ELSE LET next == DrawModule(im, a, q, x, y)
         IN  \* (the test evaluates next before the loop goes on)
             IF next.width < 0 THEN next
             ELSE RowLoop(next, a, q, x + 1, y)

\* What parse_color / parse_gradient make of the colour options.
ColorsOk(a) ==
    /\ parse_color(a.bg_color).ok
    /\ parse_color(a.fg_color).ok
    /\ (a.gradient.some => parse_gradient(a.gradient.v).ok)

NoLogo == [state |-> "none"]

\* The colour options of the runs of SpecRaster: bg, fg, gradient.
RasterThemes ==
    { <<"transparent", "#000000", None>>,
      <<"#ffffff", "#0000ff", None>>,
      <<"#ffffff", "#000000", Some(<<"#d200ff", "#00ff00">>)>>,
      <<"#ffffff", "#000000", Some(<<"#ff0000">>)>> }

DefaultArgs ==
    [data |-> Some("HI"), format |-> "png", output |-> None,
     bg_color |-> "transparent", fg_color |-> "#000000", gradient |-> None,
     dot_style |-> "square", eye_style |-> "square",
     logo |-> None, logo_size |-> 20, size |-> 500, border |-> 0,
     show |-> FALSE, copy |-> FALSE, interactive |-> FALSE]

RasterInit ==
    /\ pc = "generate"
    /\ \E v \in 1..MaxVersion, p \in {0, 1} :
           qr = [width |-> WidthOf(v), pat |-> p]
    /\ \E th \in RasterThemes,
          ds \in {"square", "circle", "rounded"},
          es \in {"square", "circle", "frame"},
          b \in {0, 1}, k \in 0..MaxScale, slack \in {0, 1} :
           args = [DefaultArgs EXCEPT
                     !.bg_color = th[1], !.fg_color = th[2], !.gradient = th[3],
                     !.dot_style = ds, !.eye_style = es, !.border = b,
                     !.size = k * (qr.width + 2 * b) + slack]
    /\ img = ImageBuffer_from_pixel(0, 0, <<0, 0, 0, 0>>)
    /\ row = 0
    /\ svg = <<>>
    /\ trace = <<>>
    /\ files = {}
    /\ logo = NoLogo

\* generate_qr_image up to the module loops: the colours are parsed and the
\* canvas is created, filled with bg.
GenerateBegin ==
    /\ pc = "generate"
    /\ IF ColorsOk(args)
       THEN /\ img' = ImageBuffer_from_pixel(args.size, args.size,
                                             parse_color(args.bg_color).v)
            /\ pc' = "modules"
       ELSE /\ pc' = "ParseError"
            /\ UNCHANGED img
    /\ row' = 0
    /\ trace' = Append(trace, "parse_color")
    /\ UNCHANGED <<args, qr, svg, files, logo>>

\* One iteration of "for y in 0..qr_width": the modules of row y are drawn.
DrawRow ==
    /\ pc = "modules"
    /\ row < qr.width
    /\ img' = RowLoop(img, args, qr, 0, row)
    /\ row' = row + 1
    /\ UNCHANGED <<pc, args, qr, svg, trace, files, logo>>

\* The module loops are over: the canvas is as it is before the logo overlay.
ModulesDone ==
    /\ pc = "modules"
    /\ row = qr.width
    /\ pc' = "drawn"
    /\ trace' = Append(trace, "modules")
    /\ UNCHANGED <<args, qr, img, row, svg, files, logo>>

RasterNext == GenerateBegin \/ DrawRow \/ ModulesDone

SpecRaster == RasterInit /\ [][RasterNext]_vars

--------------------------------------------------------------------------
(* generate_qr_image with --eye-style frame, at the scales that tell the   *)
(* thicknesses of the ring apart.                                          *)

\* The colour options of the runs of SpecFrame: bg, fg, gradient.
FrameThemes ==
    { <<"transparent", "#000000", None>>,
      <<"#ffffff", "#000000", Some(<<"#d200ff", "#00ff00">>)>> }

FrameInit ==
    /\ pc = "generate"
    /\ \E p \in {0, 1} : qr = [width |-> WidthOf(1), pat |-> p]
    /\ \E th \in FrameThemes, es \in {"frame", "Frame"}, b \in {0, 1},
          k \in (1..MaxFrameScale) \cup {15} :
           /\ es = "Frame" => k <= 3
           /\ b = 1 => k <= 5
           /\ args = [DefaultArgs EXCEPT
                        !.bg_color = th[1], !.fg_color = th[2], !.gradient = th[3],
                        !.dot_style = "circle", !.eye_style = es, !.border = b,
                        !.size = k * (qr.width + 2 * b) + b]
    /\ img = ImageBuffer_from_pixel(0, 0, <<0, 0, 0, 0>>)
    /\ row = 0
    /\ svg = <<>>
    /\ trace = <<>>
    /\ files = {}
    /\ logo = NoLogo

SpecFrame == FrameInit /\ [][RasterNext]_vars

--------------------------------------------------------------------------
(* main.rs: add_logo.  The ratio --logo-size is held in percent: 30 is the *)
(* f32 nearest to 0.30.  A logo file is [ok, width, height]; what the      *)
(* image crate does (open, resize, overlay) is modelled by its contract.   *)

\* Faulty variant: the ratio used as given, not clamped.
ClampPct_unclamped(pct) == pct

\* size_ratio.clamp(0.1, 0.4): rounding to f32 is monotonic, so the clamp of
\* the f32 ratio is the f32 of the clamped percentage.
ClampPct(pct) == IF pct < 10 THEN 10 ELSE IF pct > 40 THEN 40 ELSE pct

\* (img_size as f32 * size_ratio.clamp(0.1, 0.4)) as u32
max_logo_size(img_size, pct) ==
    F32Trunc(F32MulInt(img_size, F32Div(ClampPct(pct), 100)))

\* Faulty variant: the logo resized to a max x max square.
LogoDims_square(w, h, m) == <<m, m>>

\* (new_width, new_height) for a logo of w x h and max_logo_size m.
LogoDims(w, h, m) ==
    IF w > h
    THEN <<m, F32Trunc(F32MulInt(h, F32Div(m, w)))>>
    ELSE <<F32Trunc(F32MulInt(w, F32Div(m, h))), m>>

\* (img_size - new) / 2 in u32.  Below zero the subtraction wraps in a build
\* without overflow checks: (2^32 + d) / 2 = 2^31 + floor(d / 2) for the
\* difference d < 0; under tells that it went below zero (a build with
\* overflow checks panics there, see LogoOverlay).
CenterOffset(img_size, new) ==
    IF img_size >= new
    THEN [v |-> (img_size - new) \div 2, under |-> FALSE]
    ELSE [v |-> (2147483647 + ((img_size - new) \div 2)) + 1, under |-> TRUE]

\* What the overlay leaves in a pixel it covers.  The pixels of the logo are
\* taken to be opaque, so that the overlay changes every pixel it may change.
LogoPixel == <<128, 128, 128, 255>>

\* image::imageops::overlay(img, &logo, ox, oy): the top image is blended over
\* the bottom one where the two intersect.
overlay(im, w, h, ox, oy) ==
    [im EXCEPT !.pix =
        [py \in 0..(im.height - 1) |->
            IF py >= oy /\ py - oy < h
            THEN [px \in 0..(im.width - 1) |->
                    IF px >= ox /\ px - ox < w THEN LogoPixel ELSE im.pix[py][px]]
            ELSE im.pix[py]]]

\* for y in 0..qr_width { ... }, from row y on: the whole module pass.
RECURSIVE ModulePass(_, _, _, _)
ModulePass(im, a, q, y) ==
    IF y >= q.width THEN im
    ELSE LET next == RowLoop(im, a, q, 0, y)
         IN  IF next.width < 0 THEN next
             ELSE ModulePass(next, a, q, y + 1)

\* The logo files of the runs of SpecLogo beside the small ones.
LogoShapes == {<<32, 16>>, <<41, 41>>, <<100, 1>>}

\* add_logo is entered from generate_qr_image with the canvas as the module
\* pass left it.
LogoInit ==
    /\ pc = "add_logo"
    /\ qr = [width |-> WidthOf(1), pat |-> 0]
    /\ \/ \E s \in {1, 10, 20, 25}, pct \in {5, 10, 21, 30, 40, 150},
            ok \in BOOLEAN, w \in 1..MaxLogoSide, h \in 1..MaxLogoSide :
             args = [DefaultArgs EXCEPT
                       !.size = s, !.logo_size = pct,
                       !.logo = Some([ok |-> ok, width |-> w, height |-> h])]
       \/ \E s \in {10, 25}, pct \in {5, 10, 21, 30, 40, 150}, sh \in LogoShapes :
             args = [DefaultArgs EXCEPT
                       !.size = s, !.logo_size = pct,
                       !.logo = Some([ok |-> TRUE, width |-> sh[1], height |-> sh[2]])]
       \/ args = [DefaultArgs EXCEPT
                    !.size = 300, !.logo_size = 30, !.bg_color = "#ffffff",
                    !.logo = Some([ok |-> TRUE, width |-> 32, height |-> 16])]
    /\ img = ModulePass(ImageBuffer_from_pixel(args.size, args.size,
                                               parse_color(args.bg_color).v),
                        args, qr, 0)
    /\ row = qr.width
    /\ svg = <<>>
    /\ trace = <<>>
    /\ files = {}
    /\ logo = NoLogo

\* image::open(logo_path)?.to_rgba8()
LogoOpen ==
    /\ pc = "add_logo"
    /\ IF args.logo.v.ok
       THEN /\ logo' = [state |-> "loaded", width |-> args.logo.v.width,
                        height |-> args.logo.v.height]
            /\ pc' = "logo_loaded"
       ELSE /\ logo' = [state |-> "open_failed"]
            /\ pc' = "LogoError"
    /\ trace' = Append(trace, "add_logo")
    /\ UNCHANGED <<args, qr, img, row, svg, files>>

\* The rest of add_logo: the new size, the resize, the offsets, the overlay.
\* Where a subtraction goes below zero the build decides: with overflow checks
\* the run panics before the overlay, without them the offset wraps.
LogoOverlay ==
    /\ pc = "logo_loaded"
    /\ LET img_size == img.width
           m  == max_logo_size(img_size, args.logo_size)
           d  == LogoDims(logo.width, logo.height, m)
           ox == CenterOffset(img_size, d[1])
           oy == CenterOffset(img_size, d[2])
       IN  /\ logo' = [state |-> "placed", width |-> logo.width,
                       height |-> logo.height, max_logo_size |-> m,
                       new_width |-> d[1], new_height |-> d[2],
                       offset_x |-> ox.v, offset_y |-> oy.v,
                       underflow |-> ox.under \/ oy.under]
           /\ pc' \in IF ox.under \/ oy.under THEN {"logo_done", "panic"}
                                             ELSE {"logo_done"}
           /\ img' = IF pc' = "panic" THEN img
                     ELSE overlay(img, d[1], d[2], ox.v, oy.v)
    /\ UNCHANGED <<args, qr, row, svg, trace, files>>

LogoNext == LogoOpen \/ LogoOverlay

SpecLogo == LogoInit /\ [][LogoNext]_vars

--------------------------------------------------------------------------
(* main.rs: save_as_svg.  The document is the sequence of the elements the *)
(* function pushes onto the string, each a record of its tag and of the    *)
(* values formatted into it.                                               *)

\* let scale = 10; // SVG units per module
SvgScale == 10

\* The XML declaration and the <svg> open tag.
SvgHeader(a, q) ==
    LET svg_size == (q.width + 2 * a.border) * SvgScale
    IN  [tag |-> "svg", viewBox |-> <<0, 0, svg_size, svg_size>>,
         width |-> a.size, height |-> a.size]

\* The background rect, unless the background is transparent.
SvgBackground(a) ==
    LET bg_color == IF to_lowercase(a.bg_color) = "transparent"
                    THEN "none" ELSE a.bg_color
    IN  IF bg_color # "none"
        THEN <<[tag |-> "rect", width |-> "100%", height |-> "100%",
                fill |-> bg_color]>>
        ELSE <<>>

\* The <defs> block: only for a gradient of exactly two parts.
SvgDefs(a) ==
    IF a.gradient.some /\ Len(a.gradient.v) = 2
    THEN <<[tag |-> "defs", id |-> "qrGradient",
            stop0 |-> trim(a.gradient.v[1]),
            stop100 |-> trim(a.gradient.v[2])]>>
    ELSE <<>>

fill_attr(a) == IF a.gradient.some THEN "url(#qrGradient)" ELSE a.fg_color

\* Faulty variant: the shape chosen by eye_style.
SvgShape_by_eye_style(a, x, y) ==
    LET px == (x + a.border) * SvgScale
        py == (y + a.border) * SvgScale
    IN  CASE to_lowercase(a.eye_style) = "circle" ->
               [tag |-> "circle", cx |-> px + SvgScale \div 2,
                cy |-> py + SvgScale \div 2, r |-> SvgScale \div 2,
                fill |-> fill_attr(a)]
          [] to_lowercase(a.eye_style) = "rounded" ->
               [tag |-> "rect", x |-> px, y |-> py, width |-> SvgScale,
                height |-> SvgScale, rx |-> SvgScale \div 3, fill |-> fill_attr(a)]
          [] OTHER ->
               [tag |-> "rect", x |-> px, y |-> py, width |-> SvgScale,
                height |-> SvgScale, fill |-> fill_attr(a)]

\* The element pushed for the dark module (x, y).
SvgShape(a, x, y) ==
    LET px == (x + a.border) * SvgScale
        py == (y + a.border) * SvgScale
    IN  CASE to_lowercase(a.dot_style) = "circle" ->
               [tag |-> "circle", cx |-> px + SvgScale \div 2,
                cy |-> py + SvgScale \div 2, r |-> SvgScale \div 2,
                fill |-> fill_attr(a)]
          [] to_lowercase(a.dot_style) = "rounded" ->
               [tag |-> "rect", x |-> px, y |-> py, width |-> SvgScale,
                height |-> SvgScale, rx |-> SvgScale \div 3, fill |-> fill_attr(a)]
          [] OTHER ->
               [tag |-> "rect", x |-> px, y |-> py, width |-> SvgScale,
                height |-> SvgScale, fill |-> fill_attr(a)]

\* "for x in 0..qr_width { if qr[(x, y)] == Dark { ... } }", from x on.
RECURSIVE SvgRowLoop(_, _, _, _, _)
SvgRowLoop(doc, a, q, x, y) ==
    IF x >= q.width THEN doc
    ELSE SvgRowLoop(IF QrDark(q, x, y) THEN Append(doc, SvgShape(a, x, y)) ELSE doc,
                    a, q, x + 1, y)

\* args.output, or qrcode.<format>.
OutputPath(a) == IF a.output.some THEN a.output.v ELSE <<"qrcode", a.format>>

\* The canvas generate_qr_image returns when no logo is given.
GeneratedImage(a, q) ==
    ModulePass(ImageBuffer_from_pixel(a.size, a.size, parse_color(a.bg_color).v),
               a, q, 0)

\* The colour options of the runs of SpecSvg: bg, fg, gradient.
SvgThemes ==
    { <<"transparent", "#000000", None>>,
      <<"TRANSPARENT", "#0000ff", None>>,
      <<"#ffffff", "#0000ff", None>>,
      <<"#ffffff", "#000000", Some(<<"#ff0000 ", " #0000ff">>)>> }

\* save_as_svg is entered from main with the raster canvas generated.
SvgInit ==
    /\ pc = "save_as_svg"
    /\ \E v \in 1..MaxVersion, p \in {0, 1} :
           qr = [width |-> WidthOf(v), pat |-> p]
    /\ \E th \in SvgThemes, f \in {"svg", "SVG"},
          ds \in {"square", "circle", "rounded", "Circle", "hexagon"},
          es \in {"square", "frame"},
          b \in {0, 1} :
           args = [DefaultArgs EXCEPT
                     !.format = f,
                     !.bg_color = th[1], !.fg_color = th[2], !.gradient = th[3],
                     !.dot_style = ds, !.eye_style = es, !.border = b,
                     !.size = qr.width]
    /\ img = GeneratedImage(args, qr)
    /\ row = qr.width
    /\ svg = <<>>
    /\ trace = <<>>
    /\ files = {}
    /\ logo = NoLogo

\* save_as_svg up to the module loops: header, background, gradient.
SvgBegin ==
    /\ pc = "save_as_svg"
    /\ svg' = <<SvgHeader(args, qr)>> \o SvgBackground(args) \o SvgDefs(args)
    /\ row' = 0
    /\ pc' = "svg_modules"
    /\ trace' = Append(trace, "save_as_svg")
    /\ UNCHANGED <<args, qr, img, files, logo>>

\* One iteration of "for y in 0..qr_width" of save_as_svg.
SvgRow ==
    /\ pc = "svg_modules"
    /\ row < qr.width
    /\ svg' = SvgRowLoop(svg, args, qr, 0, row)
    /\ row' = row + 1
    /\ UNCHANGED <<pc, args, qr, img, trace, files, logo>>

\* The files with the one at path created anew, or overwritten, with content.
WithFile(fs, path, content) ==
    {f \in fs : f.path # path} \cup {[path |-> path, content |-> content]}

\* svg.push_str("</svg>\n")
SvgEnd ==
    /\ pc = "svg_modules"
    /\ row = qr.width
    /\ svg' = Append(svg, [tag |-> "/svg"])
    /\ pc' = "svg_create"
    /\ UNCHANGED <<args, qr, img, row, trace, files, logo>>

\* File::create(output_path).context("Failed to create SVG file")?: the file
\* is there, empty, or the run ends with the error and without it.
SvgCreate ==
    /\ pc = "svg_create"
    /\ \E created \in BOOLEAN :
          IF created
          THEN /\ files' = WithFile(files, OutputPath(args), <<>>)
               /\ pc' = "svg_write"
          ELSE /\ pc' = "SaveError"
               /\ UNCHANGED files
    /\ UNCHANGED <<args, qr, img, row, svg, trace, logo>>

\* file.write_all(svg.as_bytes()).context("Failed to write SVG file")?: the
\* whole document is in the file, or the run ends with the error and the file
\* holds the document cut off (here after n of its elements).
SvgWrite ==
    /\ pc = "svg_write"
    /\ \E n \in {0, 1, Len(svg) \div 2, Len(svg) - 1, Len(svg)} :
          /\ files' = WithFile(files, OutputPath(args), SubSeq(svg, 1, n))
          /\ pc' = IF n = Len(svg) THEN "saved" ELSE "SaveError"
    /\ UNCHANGED <<args, qr, img, row, svg, trace, logo>>

SvgNext == SvgBegin \/ SvgRow \/ SvgEnd \/ SvgCreate \/ SvgWrite

SpecSvg == SvgInit /\ [][SvgNext]_vars

--------------------------------------------------------------------------
(* main.rs: main.  One action per statement of main; generate_qr_image,    *)
(* add_logo and save_as_svg are the actions above.                         *)

\* let valid = [...] of validate_format
valid ==
    <<"png", "jpg", "jpeg", "svg", "webp", "tiff", "tif", "ico", "bmp",
      "gif", "tga", "avif", "qoi">>

\* Faulty variant: the format compared as given.
validate_format_as_given(format) ==
    \E i \in 1..Len(valid) : valid[i] = format

\* validate_format(format) is Ok
validate_format(format) ==
    \E i \in 1..Len(valid) : valid[i] = to_lowercase(format)

\* The data of the model: two short texts, and one longer than any QR code
\* holds.
LongData == "HI x 1500"

ByteLen(data) ==
    CASE data = LongData -> 3000
      [] data = "HELLO" -> 5
      [] OTHER -> 2

\* QrCode::with_error_correction_level(&final_data, EcLevel::M): the encoder
\* is a collaborator, modelled by its contract.  It fails when the data is
\* longer than the 2331 bytes of version 40 at level M; the short texts fit
\* version 1.  The modules it sets beside the function patterns are a
\* function of the data: each text of the model has its own data pattern.
QrCode_new(data) ==
    IF ByteLen(data) > 2331 THEN [ok |-> FALSE]
    ELSE [ok |-> TRUE, version |-> 1, pat |-> IF data = "HELLO" THEN 1 ELSE 0]

NoQr == [width |-> 0, pat |-> 0]

NoImage == ImageBuffer_from_pixel(0, 0, <<0, 0, 0, 0>>)

\* The colour options of the runs of Spec: bg, fg, gradient.
MainThemes ==
    { <<"transparent", "#000000", None>>,
      <<"#ffffff", "nope", None>>,
      <<"nope", "#000000", None>>,
      <<"#ffffff", "#000000", Some(<<"#ff0000 ", " #0000ff">>)>>,
      <<"#ffffff", "#000000", Some(<<"#ff0000">>)>>,
      <<"#ffffff", "#000000", Some(<<"#ff0000", "#0000ff", "#00ff00">>)>>,
      <<"#ffffff", "#000000", Some(<<"#ff0000", "nope">>)>> }

\* The state after Args::parse().  With --interactive the other options are
\* taken at their defaults, but for the data and the format.
Init ==
    /\ pc = "main"
    /\ \E i \in BOOLEAN, f \in {"png", "svg", "SVG", "pdf"},
          d \in {None, Some("HI"), Some("HELLO"), Some(LongData)},
          th \in MainThemes,
          l \in {None, Some([ok |-> TRUE, width |-> 3, height |-> 2]),
                 Some([ok |-> FALSE, width |-> 0, height |-> 0])},
          sc \in BOOLEAN :
           /\ i => (th = <<"transparent", "#000000", None>> /\ l = None /\ ~sc
                    /\ d # Some("HELLO"))
           /\ args = [DefaultArgs EXCEPT
                        !.interactive = i, !.format = f, !.data = d,
                        !.bg_color = th[1], !.fg_color = th[2], !.gradient = th[3],
                        !.logo = l, !.show = sc, !.copy = sc, !.size = 21]
    /\ qr = NoQr
    /\ img = NoImage
    /\ row = 0
    /\ svg = <<>>
    /\ trace = <<>>
    /\ files = {}
    /\ logo = NoLogo

\* if args.interactive { run_interactive_mode(&mut args)?; }
InteractiveMode ==
    /\ pc = "main"
    /\ IF args.interactive
       THEN /\ trace' = Append(trace, "run_interactive_mode")
            /\ pc' = "ask_data"
       ELSE /\ pc' = "validate_format"
            /\ UNCHANGED trace
    /\ UNCHANGED <<args, qr, img, row, svg, files, logo>>

(* run_interactive_mode, one action per prompt.  Each prompt blocks until  *)
(* it is answered; when it cannot be read the function returns the error   *)
(* and main ends with it.  The texts typed are drawn from a few; the       *)
(* confirmations from both answers and the selections from the whole list  *)
(* offered.  args.error, which the prompt for the error correction level   *)
(* sets, is read by the encoder alone and is not held in args here.        *)

\* "Enter text or URL", asked when --data was not given.
AskData ==
    /\ pc = "ask_data"
    /\ \/ /\ args' = [args EXCEPT !.data = IF args.data.some THEN args.data
                                                  ELSE Some("HI")]
          /\ pc' = "ask_fg"
       \/ /\ pc' = "IoError"
          /\ UNCHANGED args
    /\ UNCHANGED <<qr, img, row, svg, trace, files, logo>>

\* "Foreground color (hex)"
AskForeground ==
    /\ pc = "ask_fg"
    /\ \/ \E fg \in {"#000000", "nope"} :
             /\ args' = [args EXCEPT !.fg_color = fg]
             /\ pc' = "ask_bg"
       \/ /\ pc' = "IoError"
          /\ UNCHANGED args
    /\ UNCHANGED <<qr, img, row, svg, trace, files, logo>>

\* "Background color (hex or 'transparent')"
AskBackground ==
    /\ pc = "ask_bg"
    /\ \/ \E bg \in {"transparent"} :
             /\ args' = [args EXCEPT !.bg_color = bg]
             /\ pc' = "ask_gradient"
       \/ /\ pc' = "IoError"
          /\ UNCHANGED args
    /\ UNCHANGED <<qr, img, row, svg, trace, files, logo>>

\* "Use gradient?", default no.  On yes the colours are asked for next.
AskGradient ==
    /\ pc = "ask_gradient"
    /\ \/ \E confirm \in BOOLEAN :
             pc' = IF confirm THEN "ask_gradient_colors" ELSE "ask_dot"
       \/ pc' = "IoError"
    /\ UNCHANGED <<args, qr, img, row, svg, trace, files, logo>>

\* "Gradient colors (format: #ff0000,#0000ff)"; args.gradient = Some(gradient).
AskGradientColors ==
    /\ pc = "ask_gradient_colors"
    /\ \/ \E gradient \in {<<"#ff0000">>} :
             /\ args' = [args EXCEPT !.gradient = Some(gradient)]
             /\ pc' = "ask_dot"
       \/ /\ pc' = "IoError"
          /\ UNCHANGED args
    /\ UNCHANGED <<qr, img, row, svg, trace, files, logo>>

\* let dot_styles = vec!["square", "circle", "rounded"];
dot_styles == <<"square", "circle", "rounded">>

\* "Dot style"
AskDotStyle ==
    /\ pc = "ask_dot"
    /\ \/ \E dot_idx \in 1..Len(dot_styles) :
             /\ args' = [args EXCEPT !.dot_style = dot_styles[dot_idx]]
             /\ pc' = "ask_eye"
       \/ /\ pc' = "IoError"
          /\ UNCHANGED args
    /\ UNCHANGED <<qr, img, row, svg, trace, files, logo>>

\* let eye_styles = vec!["square", "circle", "frame"];
eye_styles == <<"square", "circle", "frame">>

\* "Eye style"
AskEyeStyle ==
    /\ pc = "ask_eye"
    /\ \/ \E eye_idx \in 1..Len(eye_styles) :
             /\ args' = [args EXCEPT !.eye_style = eye_styles[eye_idx]]
             /\ pc' = "ask_logo"
       \/ /\ pc' = "IoError"
          /\ UNCHANGED args
    /\ UNCHANGED <<qr, img, row, svg, trace, files, logo>>

\* "Add logo?", default no.  On yes the path is asked for next.
AskLogo ==
    /\ pc = "ask_logo"
    /\ \/ \E confirm \in BOOLEAN :
             pc' = IF confirm THEN "ask_logo_path" ELSE "ask_ec"
       \/ pc' = "IoError"
    /\ UNCHANGED <<args, qr, img, row, svg, trace, files, logo>>

\* "Logo path"; args.logo = Some(PathBuf::from(logo_path)).
AskLogoPath ==
    /\ pc = "ask_logo_path"
    /\ \/ \E logo_path \in {[ok |-> TRUE, width |-> 3, height |-> 2]} :
             /\ args' = [args EXCEPT !.logo = Some(logo_path)]
             /\ pc' = "ask_logo_size"
       \/ /\ pc' = "IoError"
          /\ UNCHANGED args
    /\ UNCHANGED <<qr, img, row, svg, trace, files, logo>>

\* "Logo size ratio (0.1 to 0.3)", default 0.2
AskLogoSize ==
    /\ pc = "ask_logo_size"
    /\ \/ \E ratio \in {20} :
             /\ args' = [args EXCEPT !.logo_size = ratio]
             /\ pc' = "ask_ec"
       \/ /\ pc' = "IoError"
          /\ UNCHANGED args
    /\ UNCHANGED <<qr, img, row, svg, trace, files, logo>>

\* "Error correction level"
AskErrorLevel ==
    /\ pc = "ask_ec"
    /\ \/ /\ pc' = "ask_size"
          /\ UNCHANGED args
       \/ /\ pc' = "IoError"
          /\ UNCHANGED args
    /\ UNCHANGED <<qr, img, row, svg, trace, files, logo>>

\* "Image size (pixels)", default 300.
AskSize ==
    /\ pc = "ask_size"
    /\ \/ \E size \in {21, 300} :
             /\ args' = [args EXCEPT !.size = size]
             /\ pc' = "ask_format"
       \/ /\ pc' = "IoError"
          /\ UNCHANGED args
    /\ UNCHANGED <<qr, img, row, svg, trace, files, logo>>

\* let format_options = vec!["png", "jpg", "svg", "webp", "bmp", "ico", "tiff"];
format_options == <<"png", "jpg", "svg", "webp", "bmp", "ico", "tiff">>

\* "Output format"
AskFormat ==
    /\ pc = "ask_format"
    /\ \/ \E format_idx \in 1..Len(format_options) :
             /\ args' = [args EXCEPT !.format = format_options[format_idx]]
             /\ pc' = "ask_output"
       \/ /\ pc' = "IoError"
          /\ UNCHANGED args
    /\ UNCHANGED <<qr, img, row, svg, trace, files, logo>>

\* "Output file path", default qrcode.<format>; Ok(()) after it.
AskOutput ==
    /\ pc = "ask_output"
    /\ \/ \E output \in {<<"qrcode", args.format>>} :
             /\ args' = [args EXCEPT !.output = Some(output)]
             /\ pc' = "validate_format"
       \/ /\ pc' = "IoError"
          /\ UNCHANGED args
    /\ UNCHANGED <<qr, img, row, svg, trace, files, logo>>

\* validate_format(&args.format)?;
ValidateFormat ==
    /\ pc = "validate_format"
    /\ trace' = Append(trace, "validate_format")
    /\ pc' = IF validate_format(args.format) THEN "data" ELSE "UnsupportedFormat"
    /\ UNCHANGED <<args, qr, img, row, svg, files, logo>>

\* let data = args.data.as_ref().context("Data is required...")?.clone();
RequireData ==
    /\ pc = "data"
    /\ trace' = Append(trace, "data")
    /\ pc' = IF args.data.some THEN "encode" ELSE "MissingData"
    /\ UNCHANGED <<args, qr, img, row, svg, files, logo>>

\* let qr = QrCode::with_error_correction_level(...).context(...)?;
CreateQr ==
    /\ pc = "encode"
    /\ trace' = Append(trace, "QrCode")
    /\ LET r == QrCode_new(args.data.v)
       IN  IF r.ok
           THEN /\ qr' = [width |-> WidthOf(r.version), pat |-> r.pat]
                /\ pc' = "show"
           ELSE /\ pc' = "EncodeError"
                /\ UNCHANGED qr
    /\ UNCHANGED <<args, img, row, svg, files, logo>>

\* if args.show { print_qr_terminal(&qr); }
ShowTerminal ==
    /\ pc = "show"
    /\ trace' = IF args.show THEN Append(trace, "print_qr_terminal") ELSE trace
    /\ pc' = "generate"
    /\ UNCHANGED <<args, qr, img, row, svg, files, logo>>

\* if let Some(ref logo_path) = args.logo { add_logo(...)?; }
LogoOption ==
    /\ pc = "drawn"
    /\ pc' = IF args.logo.some THEN "add_logo" ELSE "generated"
    /\ UNCHANGED <<args, qr, img, row, svg, trace, files, logo>>

\* match args.format.to_lowercase().as_str() { "svg" => save_as_svg(...)?,
\* _ => img.save(&output_path).context("Failed to save QR code image")? }
\* img.save is the image crate's: it writes the encoded canvas, or fails
\* before it has created the file (a path that cannot be created, an extension
\* it does not know), or after, leaving the file cut off.
SaveOutput ==
    /\ pc \in {"generated", "logo_done"}
    /\ IF to_lowercase(args.format) = "svg"
       THEN /\ pc' = "save_as_svg"
            /\ UNCHANGED <<trace, files>>
       ELSE /\ trace' = Append(trace, "img.save")
            /\ \E r \in {"saved", "not created", "cut off"} :
                  /\ files' = CASE r = "saved" ->
                                     WithFile(files, OutputPath(args), img)
                                [] r = "cut off" ->
                                     WithFile(files, OutputPath(args), "cut off")
                                [] OTHER -> files
                  /\ pc' = IF r = "saved" THEN "saved" ELSE "SaveError"
    /\ UNCHANGED <<args, qr, img, row, svg, logo>>

\* println!(...); if args.copy { set_contents(...) }; Ok(())
Finish ==
    /\ pc = "saved"
    /\ trace' = IF args.copy THEN Append(trace, "set_contents") ELSE trace
    /\ pc' = "done"
    /\ UNCHANGED <<args, qr, img, row, svg, files, logo>>

Next ==
    \/ InteractiveMode \/ AskData \/ AskForeground \/ AskBackground
    \/ AskGradient \/ AskGradientColors \/ AskDotStyle \/ AskEyeStyle
    \/ AskLogo \/ AskLogoPath \/ AskLogoSize
    \/ AskErrorLevel \/ AskSize \/ AskFormat \/ AskOutput
    \/ ValidateFormat \/ RequireData \/ CreateQr
    \/ ShowTerminal \/ GenerateBegin \/ DrawRow \/ ModulesDone \/ LogoOption
    \/ LogoOpen \/ LogoOverlay \/ SaveOutput \/ SvgBegin \/ SvgRow \/ SvgEnd
    \/ SvgCreate \/ SvgWrite \/ Finish

Spec == Init /\ [][Next]_vars

--------------------------------------------------------------------------
(* Properties of the module pass (SpecRaster).                             *)

\* The cell of module (x, y) as the specification states it: the pixels
\* [px, px+scale) x [py, py+scale) with px = (x+border)*scale,
\* py = (y+border)*scale and scale = floor(size_px / (N + 2*border)).
SpecScale == args.size \div (qr.width + 2 * args.border)

SpecCell(x, y) ==
    { <<(x + args.border) * SpecScale + dx, (y + args.border) * SpecScale + dy>> :
        dx \in 0..(SpecScale - 1), dy \in 0..(SpecScale - 1) }

OnCanvas(p) == p[1] < img.width /\ p[2] < img.height

Modules == (0..(qr.width - 1)) \X (0..(qr.width - 1))

BgOf(a) == parse_color(a.bg_color).v

FgOf(a) == parse_color(a.fg_color).v

\* C2: after the module pass and before the logo overlay, every pixel of the
\* cell of every light module still equals bg, whatever the dot style, the
\* eye style, the border and the gradient.
C2_LightCellsKeepBg ==
    pc = "drawn" =>
        \A m \in Modules :
            ~QrDark(qr, m[1], m[2]) =>
                \A p \in SpecCell(m[1], m[2]) :
                    OnCanvas(p) /\ img.pix[p[2]][p[1]] = BgOf(args)

\* A run with a border, a gradient, round dots and frame eyes has finished its
\* module pass at 3 pixels per module, next to a light module a dark one.
C2_Witness ==
    /\ pc = "drawn"
    /\ SpecScale = 3 /\ args.border = 1 /\ args.gradient.some
    /\ args.dot_style = "rounded" /\ args.eye_style = "frame"
    /\ ~QrDark(qr, 9, 10) /\ QrDark(qr, 10, 10)
    /\ \E p \in SpecCell(10, 10) : img.pix[p[2]][p[1]] # BgOf(args)
    /\ \A p \in SpecCell(9, 10) : img.pix[p[2]][p[1]] = BgOf(args)

\* C3: after the module pass every pixel of the cell of a dark module drawn
\* with DotStyle::Square and no gradient equals fg, and the whole cell lies on
\* the size_px x size_px canvas.
C3_SquareCellsAreFg ==
    (pc = "drawn" /\ DotStyle_from_str(args.dot_style) = "Square"
        /\ ~args.gradient.some) =>
        \A m \in Modules :
            ModuleClass(qr, m[1], m[2]) = "dot" =>
                \A p \in SpecCell(m[1], m[2]) :
                    /\ p[1] < args.size /\ p[2] < args.size
                    /\ OnCanvas(p)
                    /\ img.pix[p[2]][p[1]] = FgOf(args)

\* A square-dot run without gradient has drawn the last body module of the
\* matrix, at 3 pixels per module with a margin left over.
C3_Witness ==
    /\ pc = "drawn"
    /\ args.dot_style = "square" /\ ~args.gradient.some
    /\ SpecScale = 3 /\ args.size > 3 * (qr.width + 2 * args.border)
    /\ FgOf(args) # BgOf(args)
    /\ \E m \in Modules :
          /\ m[2] = qr.width - 1
          /\ ModuleClass(qr, m[1], m[2]) = "dot"
          /\ \A p \in SpecCell(m[1], m[2]) : img.pix[p[2]][p[1]] = FgOf(args)

\* The gradient (C0, C1) of the run and the interpolation in the rationals:
\* C0 + (C1 - C0) * x / N, truncated.
GradOf(a) == parse_gradient(a.gradient.v).v

ExactChannel(c0, c1, x, n) == (c0 * n + (c1 - c0) * x) \div n

ExactLerp(g, x, n) ==
    <<ExactChannel(g[1][1], g[2][1], x, n),
      ExactChannel(g[1][2], g[2][2], x, n),
      ExactChannel(g[1][3], g[2][3], x, n),
      255>>

\* The colours that the pixels of the cells of the dark modules of column x
\* have taken (bg is what the pass did not write).
ColumnColors(x) ==
    { img.pix[p[2]][p[1]] :
        p \in UNION { SpecCell(x, y) : y \in {yy \in 0..(qr.width - 1) : QrDark(qr, x, yy)} } }
    \ {BgOf(args)}

\* C7 as stated: with a gradient, every pixel written for a dark module of
\* column x has exactly the colour C0 + (C1 - C0)*x/N, truncated, alpha 255.
C7_ExactLerpAsStated ==
    (pc = "drawn" /\ args.gradient.some) =>
        \A x \in 0..(qr.width - 1) :
            \A c \in ColumnColors(x) : c = ExactLerp(GradOf(args), x, qr.width)

\* C7 as amended: the interpolation is evaluated in f32, so a channel is the
\* truncated exact value or, only where (C1 - C0)*x is a multiple of N, one
\* below it; alpha is 255; one colour per column, whatever y and fg; column 0
\* has the RGB of C0, and lerp returns C0 at t = 0 and C1 at t = 1.
C7_F32Lerp ==
    (pc = "drawn" /\ args.gradient.some) =>
        LET g == GradOf(args)
            n == qr.width
        IN  /\ \A x \in 0..(n - 1) :
                  /\ Cardinality(ColumnColors(x)) <= 1
                  /\ \A c \in ColumnColors(x) :
                        /\ c[4] = 255
                        /\ \A ch \in 1..3 :
                              LET e == ExactChannel(g[1][ch], g[2][ch], x, n)
                              IN  /\ c[ch] \in {e - 1, e}
                                  /\ ((g[2][ch] - g[1][ch]) * x) % n # 0 => c[ch] = e
                        /\ x = 0 => \A ch \in 1..3 : c[ch] = g[1][ch]
            /\ \A ch \in 1..3 :
                  /\ interpolate_gradient(g, 0, n)[ch] = g[1][ch]
                  /\ interpolate_gradient(g, n, n)[ch] = g[2][ch]

\* A gradient run has drawn column 0 in C0 and some column where f32 and the
\* rationals part.
C7_Witness ==
    /\ pc = "drawn" /\ args.gradient.some /\ SpecScale = 2
    /\ ColumnColors(0) = {<<210, 0, 255, 255>>}
    /\ \E x \in 1..(qr.width - 1) :
          \E c \in ColumnColors(x) :
              c[1] = ExactChannel(210, 0, x, qr.width) - 1

--------------------------------------------------------------------------
(* SpecWalk: the matrix walker alone, for every QR width.  The canvas is   *)
(* left out; trace holds, for the row just walked, the branch the loop     *)
(* body took at each x.                                                    *)

WalkInit ==
    /\ pc = "walk"
    /\ \E v \in 1..QrMaxVersion, p \in {0, 1} :
           qr = [width |-> WidthOf(v), pat |-> p]
    /\ args = DefaultArgs
    /\ img = ImageBuffer_from_pixel(0, 0, <<0, 0, 0, 0>>)
    /\ row = 0
    /\ svg = <<>>
    /\ trace = <<>>
    /\ files = {}
    /\ logo = NoLogo

\* One iteration of "for y in 0..qr_width", the glyph calls recorded.
WalkRow ==
    /\ pc = "walk"
    /\ row < qr.width
    /\ trace' = [i \in 1..qr.width |-> ModuleClass(qr, i - 1, row)]
    /\ row' = row + 1
    /\ UNCHANGED <<pc, args, qr, img, svg, files, logo>>

WalkDone ==
    /\ pc = "walk"
    /\ row = qr.width
    /\ pc' = "drawn"
    /\ UNCHANGED <<args, qr, img, row, svg, trace, files, logo>>

WalkNext == WalkRow \/ WalkDone

SpecWalk == WalkInit /\ [][WalkNext]_vars

\* The 7x7 eye region anchored at (ax, ay).
SpecEyeRegion(ax, ay) == (ax..(ax + 6)) \X (ay..(ay + 6))

SpecEyeRegions(n) ==
    <<SpecEyeRegion(0, 0), SpecEyeRegion(n - 7, 0), SpecEyeRegion(0, n - 7)>>

\* C1: for every width N in 21..177 the walker takes, at every (x, y), exactly
\* one of the three branches light / eye-dark / body-dark; the three 7x7 eye
\* regions anchored at (0,0), (N-7,0), (0,N-7) are pairwise disjoint and lie
\* in the matrix; a dark module goes to the eye style iff it lies in one of
\* them, to the dot style otherwise, and a light module to neither.
C1_Classification ==
    (pc \in {"walk", "drawn"} /\ row > 0) =>
        LET n == qr.width
            y == row - 1
            R == SpecEyeRegions(n)
        IN  /\ n \in 21..177
            /\ \A i, j \in 1..3 : i # j => R[i] \cap R[j] = {}
            /\ \A i \in 1..3 : R[i] \subseteq (0..(n - 1)) \X (0..(n - 1))
            /\ Len(trace) = n
            /\ \A x \in 0..(n - 1) :
                  LET inRegion == \E i \in 1..3 : <<x, y>> \in R[i]
                      dark == QrDark(qr, x, y)
                  IN  /\ trace[x + 1] \in {"light", "eye", "dot"}
                      /\ trace[x + 1] = "eye" <=> (dark /\ inRegion)
                      /\ trace[x + 1] = "dot" <=> (dark /\ ~inRegion)
                      /\ trace[x + 1] = "light" <=> ~dark

\* The widest matrix: row 2 has been walked, with eye modules at both ends,
\* light modules inside the eyes and body modules between them.
C1_Witness ==
    /\ pc = "walk" /\ qr.width = 177 /\ row = 3
    /\ trace[1] = "eye" /\ trace[2] = "light" /\ trace[3] = "eye"
    /\ trace[171] = "eye" /\ trace[177] = "eye"
    /\ \E x \in 9..168 : trace[x] = "dot"
    /\ \E x \in 9..168 : trace[x] = "light"

--------------------------------------------------------------------------
(* Properties of add_logo (SpecLogo).                                      *)

Placed == pc = "logo_done" /\ logo.state = "placed"

\* Claim C8 as stated: new_W / new_H is defined and differs from W / H by at
\* most 1 / max_side, for every logo with W, H >= 1 (the inequality with the
\* denominators multiplied out).
C8_RatioWithinOneOverMax ==
    Placed =>
        /\ logo.max_logo_size > 0
        /\ logo.new_width > 0
        /\ logo.new_height > 0
        /\ Abs(logo.new_width * logo.height - logo.width * logo.new_height)
              * logo.max_logo_size
           <= logo.new_height * logo.height

\* Claim C8, corrected: the longer side of the logo (the height, when the
\* logo is square) becomes max_side, and the other side is within one pixel
\* of its proportional length short * max_side / long; it may be 0.
C8_ShortSideWithinOnePixel ==
    Placed =>
        LET long   == Max(logo.width, logo.height)
            short  == IF logo.width > logo.height THEN logo.height ELSE logo.width
            nlong  == IF logo.width > logo.height THEN logo.new_width
                                                  ELSE logo.new_height
            nshort == IF logo.width > logo.height THEN logo.new_height
                                                  ELSE logo.new_width
        IN  /\ nlong = logo.max_logo_size
            /\ Abs(nshort * long - short * logo.max_logo_size) <= long

\* A logo of 3 x 2 is placed as 10 x 6: the short side is within a pixel of
\* 6.67, and 10/6 is further than 1/10 from 3/2.
C8_Witness ==
    /\ Placed
    /\ logo.width = 3 /\ logo.height = 2 /\ logo.max_logo_size = 10
    /\ logo.new_width = 10 /\ logo.new_height = 6

\* clamp(ratio, 0.1, 0.4) of the claim, in percent.
SpecClampedPct == Max(10, IF args.logo_size > 40 THEN 40 ELSE args.logo_size)

\* Claim C9: the overlay resizes the logo to at most max_side a side, with
\* max_side at most floor(S * clamp(ratio, 0.1, 0.4)) <= S, centres it at
\* ((S - new_W) / 2, (S - new_H) / 2) without going below zero, keeps the box
\* on the canvas and leaves every pixel outside the box as it was.
C9_LogoBoxCentred ==
    [][ LogoOverlay =>
          LET S == img.width
          IN  /\ logo'.new_width <= logo'.max_logo_size
              /\ logo'.new_height <= logo'.max_logo_size
              /\ logo'.max_logo_size <= (S * SpecClampedPct) \div 100
              /\ logo'.max_logo_size <= S
              /\ ~logo'.underflow
              /\ logo'.offset_x = (S - logo'.new_width) \div 2
              /\ logo'.offset_y = (S - logo'.new_height) \div 2
              /\ logo'.offset_x + logo'.new_width <= S
              /\ logo'.offset_y + logo'.new_height <= S
              /\ img'.width = S /\ img'.height = img.height
              /\ \A py \in 0..(S - 1), px \in 0..(S - 1) :
                    \/ /\ logo'.offset_x <= px
                       /\ px < logo'.offset_x + logo'.new_width
                       /\ logo'.offset_y <= py
                       /\ py < logo'.offset_y + logo'.new_height
                    \/ img'.pix[py][px] = img.pix[py][px]
              /\ (S = 300 /\ args.logo_size = 30
                    /\ logo.width = 32 /\ logo.height = 16)
                 => /\ logo'.new_width = 90 /\ logo'.new_height = 45
                    /\ logo'.offset_x = 105 /\ logo'.offset_y = 127 ]_vars

\* The 32 x 16 logo at ratio 0.3 on the 300 x 300 canvas is placed as 90 x 45
\* at (105, 127): the pixels of the box are the logo's, the ones next to it
\* are the canvas's.
C9_Witness ==
    /\ Placed
    /\ img.width = 300 /\ logo.width = 32 /\ logo.height = 16
    /\ logo.max_logo_size = 90
    /\ logo.new_width = 90 /\ logo.new_height = 45
    /\ logo.offset_x = 105 /\ logo.offset_y = 127
    /\ img.pix[127][105] = LogoPixel /\ img.pix[171][194] = LogoPixel
    /\ img.pix[126][105] # LogoPixel /\ img.pix[172][194] # LogoPixel
    /\ img.pix[127][104] # LogoPixel /\ img.pix[171][195] # LogoPixel

--------------------------------------------------------------------------
(* Properties of save_as_svg (SpecSvg).                                    *)

\* The elements of the document between the preamble (header, background,
\* gradient definitions) and the closing tag.
SvgPreambleLen ==
    1 + (IF to_lowercase(args.bg_color) = "transparent" THEN 0 ELSE 1)
      + (IF args.gradient.some THEN 1 ELSE 0)

SvgShapes == SubSeq(svg, SvgPreambleLen + 1, Len(svg) - 1)

\* The module a shape element stands for, from its position: <<x, y>>.
SvgCellOf(e) ==
    LET ox == IF e.tag = "circle" THEN e.cx - 5 ELSE e.x
        oy == IF e.tag = "circle" THEN e.cy - 5 ELSE e.y
    IN  <<ox \div 10 - args.border, oy \div 10 - args.border>>

\* Is e the shape that dot_style asks for, at module (x, y)?
SvgShapeAsSpecified(e, x, y) ==
    LET px == (x + args.border) * 10
        py == (y + args.border) * 10
        ds == to_lowercase(args.dot_style)
    IN  CASE ds = "circle" ->
               /\ e.tag = "circle" /\ e.cx = px + 5 /\ e.cy = py + 5 /\ e.r = 5
          [] ds = "rounded" ->
               /\ e.tag = "rect" /\ e.x = px /\ e.y = py
               /\ e.width = 10 /\ e.height = 10
               /\ "rx" \in DOMAIN e /\ e.rx = 3
          [] OTHER ->
               /\ e.tag = "rect" /\ e.x = px /\ e.y = py
               /\ e.width = 10 /\ e.height = 10
               /\ "rx" \notin DOMAIN e

\* Claim C10: the written document is the header with a square viewBox of
\* side (N + 2*border)*10, the optional background and gradient definitions,
\* then exactly one shape per dark module and none per light module in
\* row-major order, each placed at ((x+border)*10, (y+border)*10) and of the
\* kind dot_style alone decides, then the closing tag.
C10_OneShapePerDarkModule ==
    pc = "saved" =>
        LET n      == Len(SvgShapes)
            side   == (qr.width + 2 * args.border) * 10
            cell(i) == SvgCellOf(SvgShapes[i])
            key(i)  == cell(i)[2] * qr.width + cell(i)[1]
        IN  /\ svg[1].tag = "svg" /\ svg[1].viewBox = <<0, 0, side, side>>
            /\ svg[Len(svg)].tag = "/svg"
            /\ \A i \in 2..SvgPreambleLen :
                  \/ svg[i].tag = "defs"
                  \/ svg[i].tag = "rect" /\ svg[i].width = "100%"
            /\ n = Cardinality({c \in Modules : QrDark(qr, c[1], c[2])})
            /\ \A i \in 1..n :
                  /\ cell(i) \in Modules
                  /\ QrDark(qr, cell(i)[1], cell(i)[2])
                  /\ SvgShapeAsSpecified(SvgShapes[i], cell(i)[1], cell(i)[2])
                  /\ i < n => key(i) < key(i + 1)
            /\ to_lowercase(args.dot_style) = "circle" =>
                  \A i \in 1..n : SvgShapes[i].tag = "circle" /\ SvgShapes[i].r = 5
            /\ files = {[path |-> OutputPath(args), content |-> svg]}

\* A document is written with dot_style Circle and eye_style frame, over a
\* background: its first shape is the circle of the eye module (0, 0), and the
\* only rect is the background.
C10_Witness ==
    /\ pc = "saved"
    /\ args.dot_style = "Circle" /\ args.eye_style = "frame"
    /\ args.border = 1 /\ args.bg_color = "#ffffff" /\ ~args.gradient.some
    /\ svg[2].tag = "rect"
    /\ svg[3] = [tag |-> "circle", cx |-> 15, cy |-> 15, r |-> 5,
                 fill |-> args.fg_color]
    /\ Len(svg) > 100
    /\ \A i \in 3..(Len(svg) - 1) : svg[i].tag = "circle"

--------------------------------------------------------------------------
(* Properties of main (Spec).                                              *)

\* The whitelist of the claim, compared case-insensitively.
SpecFormatOk ==
    to_lowercase(args.format) \in
        {"png", "jpg", "jpeg", "svg", "webp", "tiff", "tif", "ico", "bmp",
         "gif", "tga", "avif", "qoi"}

\* Has the step named s been executed?
Ran(s) == \E i \in 1..Len(trace) : trace[i] = s

\* Nothing of the pipeline has happened: no QR code, no colour parsed, no
\* pixel drawn, no document, no file.
NothingDone ==
    /\ qr = NoQr /\ img = NoImage /\ svg = <<>> /\ files = {}
    /\ \A i \in 1..Len(trace) :
          trace[i] \in {"run_interactive_mode", "validate_format"}

\* Where a run is before validate_format has been called: at the start, in
\* the prompts of the interactive mode (or ended by one), or at the call.
BeforeCheck ==
    {"main", "ask_data", "ask_fg", "ask_bg", "ask_gradient",
     "ask_gradient_colors", "ask_dot", "ask_eye", "ask_logo", "ask_logo_path",
     "ask_logo_size", "ask_ec", "ask_size", "ask_format", "ask_output",
     "IoError", "validate_format"}

\* Claim C4: the format that reaches validate_format is rejected as
\* UnsupportedFormat exactly when it is not, case-insensitively, on the
\* whitelist; the rejection comes before the QR code is encoded, a colour or
\* gradient parsed, a pixel drawn or a file created, and no run gets past
\* the check with such a format.
C4_UnsupportedFormatFirst ==
    /\ pc = "UnsupportedFormat" => (~SpecFormatOk /\ NothingDone)
    /\ pc = "validate_format" => NothingDone
    /\ pc \notin BeforeCheck \cup {"UnsupportedFormat"} => SpecFormatOk
    /\ (pc \notin BeforeCheck /\ SpecFormatOk)
          => pc # "UnsupportedFormat" /\ Ran("validate_format")

\* The format pdf is rejected as the first thing the run does, though the
\* data is missing as well.
C4_Witness ==
    /\ pc = "UnsupportedFormat"
    /\ args.format = "pdf" /\ ~args.data.some
    /\ trace = <<"validate_format">>

\* The colour options as the claim wants them: bg and fg are colours (or
\* transparent), the gradient has exactly two fields, both colours.
SpecColorsValid ==
    /\ to_lowercase(args.bg_color) = "transparent" \/ args.bg_color \in DOMAIN ColorTable
    /\ to_lowercase(args.fg_color) = "transparent" \/ args.fg_color \in DOMAIN ColorTable
    /\ args.gradient.some =>
          /\ Len(args.gradient.v) = 2
          /\ \A i \in 1..2 : trim(args.gradient.v[i]) \in DOMAIN ColorTable

SpecErrors ==
    {"UnsupportedFormat", "MissingData", "EncodeError", "ParseError", "LogoError"}

\* Claim C5: a run in which the format is unsupported, the data missing or
\* not encodable, a colour or the gradient invalid, or the logo unreadable
\* ends with that error: it never creates or writes a file, and once the
\* error is raised no further step is executed.
C5_ErrorsAbort ==
    /\ [](/\ pc \in SpecErrors => (files = {} /\ svg = <<>>)
          /\ pc = "UnsupportedFormat" => ~SpecFormatOk
          /\ pc = "MissingData" => ~args.data.some
          /\ pc = "EncodeError" => args.data.v = LongData
          /\ pc = "ParseError" => ~SpecColorsValid
          /\ pc = "LogoError" => (args.logo.some /\ ~args.logo.v.ok)
          /\ (files # {} \/ pc = "done") =>
                /\ SpecFormatOk
                /\ args.data.some /\ args.data.v # LongData
                /\ SpecColorsValid
                /\ args.logo.some => args.logo.v.ok)
    /\ [][pc \notin SpecErrors]_vars

\* A run for format svg with a gradient of one field has ended in ParseError,
\* after the QR code was encoded, with nothing written.
C5_Witness ==
    /\ pc = "ParseError"
    /\ to_lowercase(args.format) = "svg"
    /\ args.gradient.some /\ Len(args.gradient.v) = 1
    /\ qr # NoQr /\ files = {}

\* Claim C6 as stated: a finished run has executed either the raster pipeline
\* (colour parsing, module rasterization, logo compositing) or the vector
\* pipeline, never both: for svg only the vector one, for any other format
\* only the raster one, and exactly one output is written.
C6_EitherRasterOrVector ==
    pc = "done" =>
        LET rasterRan == Ran("parse_color") \/ Ran("modules") \/ Ran("add_logo")
            vectorRan == Ran("save_as_svg")
        IN  /\ Cardinality(files) = 1
            /\ ~(rasterRan /\ vectorRan)
            /\ IF to_lowercase(args.format) = "svg"
               THEN vectorRan /\ ~rasterRan
                    /\ \A f \in files : f.content = svg
               ELSE rasterRan /\ ~vectorRan
                    /\ \A f \in files : f.content = img

--------------------------------------------------------------------------
(* Properties of the frame eyes (SpecFrame).                               *)

\* t = max(1, floor(0.2 * scale)) of the claim.
SpecThickness == IF SpecScale \div 5 < 1 THEN 1 ELSE SpecScale \div 5

\* Is the cell-local pixel (dx, dy) on the ring of the claim?
SpecOnRing(dx, dy) ==
    \/ dx < SpecThickness \/ dx >= SpecScale - SpecThickness
    \/ dy < SpecThickness \/ dy >= SpecScale - SpecThickness

\* Claim C11: after the module pass with EyeStyle::Frame at a scale >= 1, in
\* the cell of every dark eye module the pixel (dx, dy) has the module's
\* colour iff dx < t or dx >= scale - t or dy < t or dy >= scale - t, with
\* t = max(1, floor(0.2 * scale)), and is bg otherwise; t is at most scale;
\* at scale 10 the ring is 2 pixels thick and the cell centre is bg.
C11_FrameRing ==
    (pc = "drawn" /\ EyeStyle_from_str(args.eye_style) = "Frame"
        /\ SpecScale >= 1) =>
        /\ SpecThickness <= SpecScale
        /\ FrameThickness(SpecScale) = SpecThickness
        /\ SpecScale = 10 => SpecThickness = 2
        /\ \A m \in Modules :
              ModuleClass(qr, m[1], m[2]) = "eye" =>
                 /\ \A dx \in 0..(SpecScale - 1), dy \in 0..(SpecScale - 1) :
                       LET px == (m[1] + args.border) * SpecScale + dx
                           py == (m[2] + args.border) * SpecScale + dy
                       IN  /\ px < img.width /\ py < img.height
                           /\ img.pix[py][px] =
                                 IF SpecOnRing(dx, dy)
                                 THEN ModuleColor(args, qr, m[1])
                                 ELSE BgOf(args)
                 /\ SpecScale = 10 =>
                       img.pix[(m[2] + args.border) * 10 + 5]
                              [(m[1] + args.border) * 10 + 5] = BgOf(args)

\* The module pass with frame eyes has finished at 10 pixels per module: the
\* cell of the eye module (0, 0) has a ring 2 pixels thick around bg.
C11_Witness ==
    /\ pc = "drawn"
    /\ args.eye_style = "frame" /\ SpecScale = 10 /\ args.border = 0
    /\ ~args.gradient.some
    /\ ModuleClass(qr, 0, 0) = "eye"
    /\ img.pix[0][0] = FgOf(args) /\ img.pix[1][1] = FgOf(args)
    /\ img.pix[2][2] = BgOf(args) /\ img.pix[5][5] = BgOf(args)
    /\ img.pix[7][7] = BgOf(args)
    /\ img.pix[8][8] = FgOf(args) /\ img.pix[9][9] = FgOf(args)
    /\ img.pix[5][1] = FgOf(args) /\ img.pix[5][2] = BgOf(args)

--------------------------------------------------------------------------
(* The gradient of the SVG documents main writes (Spec).                   *)

\* Does element i of the document refer to the gradient qrGradient?
UsesGradient(i) ==
    "fill" \in DOMAIN svg[i] /\ svg[i].fill = "url(#qrGradient)"

\* Does element j of the document define the gradient qrGradient?
DefinesGradient(j) == svg[j].tag = "defs" /\ svg[j].id = "qrGradient"

\* Claim C12: in the document main builds and writes (the file holds the
\* document, or a beginning of it when the write failed), an element is filled
\* with url(#qrGradient) only after a <defs> block that defines qrGradient;
\* save_as_svg starts only after generate_qr_image has parsed the colours and
\* finished, so a gradient option that reaches it has exactly two fields.
C12_GradientFillHasDefs ==
    /\ \A i \in 1..Len(svg) :
          UsesGradient(i) => \E j \in 1..(i - 1) : DefinesGradient(j)
    /\ Ran("save_as_svg") =>
          /\ \E i, j, k \in 1..Len(trace) :
                /\ i < j /\ j < k
                /\ trace[i] = "parse_color" /\ trace[j] = "modules"
                /\ trace[k] = "save_as_svg"
          /\ args.gradient.some =>
                (Len(args.gradient.v) = 2 /\ parse_gradient(args.gradient.v).ok)
    /\ (files # {} /\ to_lowercase(args.format) = "svg") =>
          \E n \in 0..Len(svg) :
             /\ files = {[path |-> OutputPath(args), content |-> SubSeq(svg, 1, n)]}
             /\ pc \in {"saved", "done"} => n = Len(svg)

\* A run for format svg with a gradient of two fields is over: the document
\* written has the background, the definition of qrGradient with the trimmed
\* colours, and shapes filled with it.
C12_Witness ==
    /\ pc = "done"
    /\ to_lowercase(args.format) = "svg" /\ args.gradient.some
    /\ files = {[path |-> OutputPath(args), content |-> svg]}
    /\ svg[3] = [tag |-> "defs", id |-> "qrGradient",
                 stop0 |-> "#ff0000", stop100 |-> "#0000ff"]
    /\ UsesGradient(4) /\ UsesGradient(Len(svg) - 1)
    /\ ~UsesGradient(2)

==========================================================================
